---- MODULE Spec2Model ----
(***************************************************************************)
(* The Nobø hub climate platform of homeassistant/components/nobo_hub:     *)
(* one NoboZone entity over the data of a pynobo hub object, and the       *)
(* platform's _setup.                                                      *)
(*                                                                         *)
(* Spec        a NoboZone after __init__, driven by the host's commands    *)
(*             (async_set_hvac_mode, async_set_preset_mode,                *)
(*             async_set_temperature, update) and by the hub, which        *)
(*             answers the entity's requests, changes its tables and then  *)
(*             calls the registered _after_update callback.  An await of a *)
(*             hub call is a point where the hub's callbacks and the clock *)
(*             may run; one command is in flight at a time.                *)
(* SpecUpdate  update() over every table the hub may hold: the hub changes *)
(*             zones, overrides, week profile and temperature, and calls   *)
(*             back.                                                       *)
(* SpecSetup   _setup: the resolution of the OFF / ON week profiles and    *)
(*             the construction of the entities.                           *)
(***************************************************************************)
EXTENDS Integers, Sequences, FiniteSets, TLC

None == "None"
\* A keyword argument: Absent, or Some(v) for the value v.
Absent == <<>>
Some(v) == <<v>>

(************************* climate/const.py names *************************)
HVAC_MODE_OFF  == "off"
HVAC_MODE_HEAT == "heat"
HVAC_MODE_AUTO == "auto"
PRESET_NONE    == "none"
PRESET_COMFORT == "comfort"
PRESET_ECO     == "eco"
PRESET_AWAY    == "away"

PRESET_MODES == <<PRESET_NONE, PRESET_COMFORT, PRESET_ECO, PRESET_AWAY>>
HVAC_MODES == <<HVAC_MODE_OFF, HVAC_MODE_HEAT, HVAC_MODE_AUTO>>
HVAC_MODES_WITHOUT_OFF == <<HVAC_MODE_HEAT, HVAC_MODE_AUTO>>

MIN_TEMPERATURE == 7

(***************************** nobo.API names *****************************)
NAME_OFF     == "off"
NAME_AWAY    == "away"
NAME_ECO     == "eco"
NAME_COMFORT == "comfort"
NAME_NORMAL  == "normal"
OVERRIDE_MODE_NORMAL  == "0"
OVERRIDE_MODE_COMFORT == "1"
OVERRIDE_MODE_ECO     == "2"
OVERRIDE_MODE_AWAY    == "3"
OVERRIDE_TYPE_NOW      == "0"
OVERRIDE_TYPE_CONSTANT == "3"
OVERRIDE_TARGET_GLOBAL == "0"
OVERRIDE_TARGET_ZONE   == "1"

(******************************** bounds **********************************)
\* Setpoints range over MIN_TEMPERATURE .. MIN_TEMPERATURE + TempSpan.
TempSpan == 1
\* The hub's override table holds at most MaxOverrides entries.
MaxOverrides == 1
\* The clock runs over 0 .. MaxClock.
MaxClock == 1
\* Names (of zones and week profiles) are 1 .. MaxNameLen characters long.
MaxNameLen == 1
\* The hub _setup reads has at most MaxSetupZones zones.
MaxSetupZones == 1
\* The configured ON commands name at most MaxCommandOn zones.
MaxCommandOn == 1

(***************************** input domains ******************************)
ZoneIds == {"1", "2"}
Temps == MIN_TEMPERATURE .. (MIN_TEMPERATURE + TempSpan)
\* A setpoint of the host's service call: a temperature in half degrees (the
\* host passes floats), or Absent when the keyword is not passed.
TempArgs ==
  {Absent} \cup
  {Some(h) : h \in 2 * MIN_TEMPERATURE .. 2 * (MIN_TEMPERATURE + TempSpan) + 1}
HvacArgs == {HVAC_MODE_OFF, HVAC_MODE_HEAT, HVAC_MODE_AUTO, "cool"}
PresetArgs == {PRESET_NONE, PRESET_COMFORT, PRESET_ECO, PRESET_AWAY, "boost"}
OverrideModes == {OVERRIDE_MODE_NORMAL, OVERRIDE_MODE_COMFORT,
                  OVERRIDE_MODE_ECO, OVERRIDE_MODE_AWAY}
Temperatures == {None, "20.5"}

\* The week profiles of the hub of Spec: the status each gives per time slot.
WeekProfiles ==
  [off |-> <<NAME_OFF, NAME_OFF>>,
   wk1 |-> <<NAME_COMFORT, NAME_ECO>>,
   wk2 |-> <<NAME_AWAY, NAME_NORMAL>>]
WeekProfileIds == DOMAIN WeekProfiles

VARIABLES
  \* the pynobo hub object
  zones,              \* hub.zones: zone id -> zone record
  overrides,          \* hub.overrides: override id -> override record
  temperature,        \* what hub.get_current_zone_temperature(id) returns
  now,                \* dt_util.now()
  \* the NoboZone
  id,                 \* self._id
  command_off_id,     \* self._command_off_id
  command_on_id,      \* self._command_on_id
  current_mode,       \* self._current_mode
  current_operation,  \* self._current_operation
  current_temperature,     \* self._current_temperature
  target_temperature_high, \* self._target_temperature_high
  target_temperature_low,  \* self._target_temperature_low
  pc,                 \* where the command in flight is suspended
  \* what the host and the hub client see of the latest command
  op,                 \* the latest command: its kind and, of
                      \* async_set_hvac_mode, the local hvac_mode
  calls,              \* the hub client calls the command in flight has made
  result,             \* of the latest command: "pending", "ok" or the
                      \* exception it raised
  last,               \* the latest update(): what it read and set
  conf_override_type, \* the override duration type of the configuration
  \* _setup
  config_entry,       \* config_entry.data
  week_profiles,      \* hub.week_profiles, in iteration order
  hub_zones,          \* hub.zones as _setup reads it
  setup_pc,           \* "start", "started", "done" or "raised"
  entities            \* zone id -> the NoboZone _setup added

hubvars == <<zones, overrides, temperature, now>>
view == <<current_mode, current_operation, current_temperature,
          target_temperature_high, target_temperature_low>>
zonevars == <<id, command_off_id, command_on_id>>
cmdvars == <<pc, op, calls, result>>
setupvars == <<config_entry, week_profiles, hub_zones, setup_pc, entities>>
vars == <<hubvars, view, zonevars, cmdvars, last, conf_override_type, setupvars>>

(****************************** the hub object ****************************)
\* hub.get_current_zone_mode(zone_id, now): the status the zone's week
\* profile gives at the time passed.
get_current_zone_mode(zs, zone_id, t) ==
  LET schedule == WeekProfiles[zs[zone_id].week_profile_id]
  IN  schedule[(t % Len(schedule)) + 1]

\* int(kwargs.get(key)) of a setpoint (in half degrees): kwargs.get gives
\* None for an absent keyword and int(None) raises TypeError; int of a float
\* truncates.
PyInt(x) == IF x = Absent THEN "TypeError" ELSE x[1] \div 2

(******************************** NoboZone ********************************)
\* can_turn_off() of an entity with these two command ids.
CanTurnOff(off_id, on_id) == on_id # None /\ off_id # None

\* hvac_modes of an entity with these two command ids.
HvacModes(off_id, on_id) ==
  IF CanTurnOff(off_id, on_id) THEN HVAC_MODES ELSE HVAC_MODES_WITHOUT_OFF

can_turn_off == CanTurnOff(command_off_id, command_on_id)

hvac_modes == HvacModes(command_off_id, command_on_id)

\* update(), lines 353-363: the mode the state name gives.
StateMode(state) ==
  IF state = NAME_OFF THEN HVAC_MODE_OFF ELSE HVAC_MODE_AUTO

\* update(), lines 354-363: the preset the state name gives.
StatePreset(state) ==
  CASE state = NAME_OFF -> PRESET_NONE
    [] state = NAME_AWAY -> PRESET_AWAY
    [] state = NAME_ECO -> PRESET_ECO
    [] state = NAME_COMFORT -> PRESET_COMFORT
    [] OTHER -> PRESET_NONE

\* A variant of OverrideForcesHeat without the test of line 365: the
\* overrides count on every zone.
OverrideForcesHeat_AnyZone(zs, ovs, zid) ==
  \E o \in DOMAIN ovs :
    /\ ovs[o].mode # "0"
    /\ ovs[o].target_type = OVERRIDE_TARGET_ZONE
    /\ ovs[o].target_id = zid

\* update(), lines 365-374: some override that is not "normal" has this
\* zone as its target, on a zone that allows overrides.
OverrideForcesHeat(zs, ovs, zid) ==
  /\ zs[zid].override_allowed = "1"
  /\ \E o \in DOMAIN ovs :
       /\ ovs[o].mode # "0"
       /\ ovs[o].target_type = OVERRIDE_TARGET_ZONE
       /\ ovs[o].target_id = zid

\* The fields update() sets, from the hub data it reads.
ReadState(zs, ovs, tmp, t) ==
  LET state == get_current_zone_mode(zs, id, t)
  IN  [mode |-> IF OverrideForcesHeat(zs, ovs, id)
                THEN HVAC_MODE_HEAT ELSE StateMode(state),
       preset |-> StatePreset(state),
       temperature |-> tmp,
       high |-> zs[id].temp_comfort_c,
       low |-> zs[id].temp_eco_c]

\* A variant of update() without the reset of line 353: the mode stays as it
\* is unless the state name or an override sets it.
update_ModeKept(zs, ovs, tmp, t) ==
  LET state == get_current_zone_mode(zs, id, t)
      r == ReadState(zs, ovs, tmp, t)
      v == [r EXCEPT !.mode = IF OverrideForcesHeat(zs, ovs, id) THEN HVAC_MODE_HEAT
                              ELSE IF state = NAME_OFF THEN HVAC_MODE_OFF
                              ELSE current_mode]
  IN  /\ current_mode' = v.mode
      /\ current_operation' = v.preset
      /\ current_temperature' = v.temperature
      /\ target_temperature_high' = v.high
      /\ target_temperature_low' = v.low
      /\ last' = [state |-> state, view |-> v, time |-> t,
                  repeats |-> /\ <<zs, ovs, tmp>> = <<zones, overrides, temperature>>
                              /\ state = last.state
                              /\ t > last.time]

\* update() on the hub data zs, ovs, tmp at time t.  `last` keeps what this
\* update read and set, and whether it repeats the update before it: the
\* same hub data and state name, read at a later time.
update(zs, ovs, tmp, t) ==
  LET v == ReadState(zs, ovs, tmp, t)
      state == get_current_zone_mode(zs, id, t)
  IN  /\ current_mode' = v.mode
      /\ current_operation' = v.preset
      /\ current_temperature' = v.temperature
      /\ target_temperature_high' = v.high
      /\ target_temperature_low' = v.low
      /\ last' = [state |-> state, view |-> v, time |-> t,
                  repeats |-> /\ <<zs, ovs, tmp>> = <<zones, overrides, temperature>>
                              /\ state = last.state
                              /\ t > last.time]

View ==
  [mode |-> current_mode, preset |-> current_operation,
   temperature |-> current_temperature,
   high |-> target_temperature_high, low |-> target_temperature_low]


\* async_set_preset_mode, lines 319-326: the override mode of a preset.
PresetOverrideMode(preset_mode) ==
  CASE preset_mode = PRESET_ECO -> OVERRIDE_MODE_ECO
    [] preset_mode = PRESET_AWAY -> OVERRIDE_MODE_AWAY
    [] preset_mode = PRESET_COMFORT -> OVERRIDE_MODE_COMFORT
    [] OTHER -> OVERRIDE_MODE_NORMAL

\* A variant of CreateOverrideCall whose duration type is the one of the
\* configuration.
CreateOverrideCall_Configured(preset_mode) ==
  [op |-> "create_override",
   mode |-> PresetOverrideMode(preset_mode),
   type |-> conf_override_type,
   target_type |-> OVERRIDE_TARGET_ZONE,
   target_id |-> id]

\* async_set_preset_mode, lines 327-332: the create-override call.
CreateOverrideCall(preset_mode) ==
  [op |-> "create_override",
   mode |-> PresetOverrideMode(preset_mode),
   type |-> OVERRIDE_TYPE_CONSTANT,
   target_type |-> OVERRIDE_TARGET_ZONE,
   target_id |-> id]

\* A variant of PresetCalls without the test of line 318.
PresetCalls_Unguarded(preset_mode) ==
  <<CreateOverrideCall(preset_mode)>>

\* The hub client calls of async_set_preset_mode(preset_mode).
PresetCalls(preset_mode) ==
  IF zones[id].override_allowed = "1"
  THEN <<CreateOverrideCall(preset_mode)>>
  ELSE <<>>

\* self._nobo.async_update_zone(self._id, ...), each keyword Absent or Some.
UpdateZoneCall(week_profile_id, temp_comfort_c, temp_eco_c) ==
  [op |-> "update_zone",
   zone_id |-> id,
   week_profile_id |-> week_profile_id,
   temp_comfort_c |-> temp_comfort_c,
   temp_eco_c |-> temp_eco_c]

\* A variant of async_set_preset_mode that also sets the preset it was
\* asked for, without waiting for update().
async_set_preset_mode_Optimistic(preset_mode) ==
  /\ pc = "idle"
  /\ op' = [kind |-> "preset", arg |-> None]
  /\ calls' = PresetCalls(preset_mode)
  /\ IF PresetCalls(preset_mode) # <<>>
     THEN pc' = "preset_await" /\ result' = "pending"
     ELSE pc' = "idle" /\ result' = "ok"
  /\ current_operation' = preset_mode
  /\ UNCHANGED <<hubvars, current_mode, current_temperature,
                 target_temperature_high, target_temperature_low,
                 zonevars, last, conf_override_type, setupvars>>

\* async_set_preset_mode(preset_mode), called by the host.
async_set_preset_mode(preset_mode) ==
  /\ pc = "idle"
  /\ op' = [kind |-> "preset", arg |-> None]
  /\ calls' = PresetCalls(preset_mode)
  /\ IF PresetCalls(preset_mode) # <<>>
     THEN pc' = "preset_await" /\ result' = "pending"
     ELSE pc' = "idle" /\ result' = "ok"
  /\ UNCHANGED <<hubvars, view, zonevars, last, conf_override_type, setupvars>>

\* async_set_preset_mode resumes after its await and returns.
PresetReturn ==
  /\ pc = "preset_await"
  /\ pc' = "idle"
  /\ result' = "ok"
  /\ calls' = <<>>
  /\ UNCHANGED <<hubvars, view, zonevars, op, last,
                 conf_override_type, setupvars>>

\* A variant of HvacSecondPart that remembers the requested mode in every
\* branch.
HvacSecondPart_ModeAlwaysSet(hvac_mode, cs, cm) ==
  IF can_turn_off
  THEN IF hvac_mode = HVAC_MODE_OFF
       THEN IF PresetCalls(PRESET_NONE) # <<>>
            THEN /\ calls' = cs \o PresetCalls(PRESET_NONE)
                 /\ current_mode' = hvac_mode
                 /\ pc' = "hvac_off_preset_await"
                 /\ result' = "pending"
            ELSE /\ calls' = Append(cs,
                                    UpdateZoneCall(Some(command_off_id), Absent, Absent))
                 /\ current_mode' = hvac_mode
                 /\ pc' = "hvac_zone_await"
                 /\ result' = "pending"
       ELSE /\ calls' = Append(cs,
                               UpdateZoneCall(Some(command_on_id), Absent, Absent))
            /\ current_mode' = hvac_mode
            /\ pc' = "hvac_zone_await"
            /\ result' = "pending"
  ELSE /\ calls' = <<>>
       /\ current_mode' = hvac_mode
       /\ pc' = "idle"
       /\ result' = "ok"

\* async_set_hvac_mode, lines 280-310, with the calls cs made and the mode
\* cm remembered so far.
HvacSecondPart(hvac_mode, cs, cm) ==
  IF can_turn_off
  THEN IF hvac_mode = HVAC_MODE_OFF
       THEN IF PresetCalls(PRESET_NONE) # <<>>
            THEN /\ calls' = cs \o PresetCalls(PRESET_NONE)
                 /\ current_mode' = cm
                 /\ pc' = "hvac_off_preset_await"
                 /\ result' = "pending"
            ELSE /\ calls' = Append(cs,
                                    UpdateZoneCall(Some(command_off_id), Absent, Absent))
                 /\ current_mode' = hvac_mode
                 /\ pc' = "hvac_zone_await"
                 /\ result' = "pending"
       ELSE /\ calls' = Append(cs,
                               UpdateZoneCall(Some(command_on_id), Absent, Absent))
            /\ current_mode' = cm
            /\ pc' = "hvac_zone_await"
            /\ result' = "pending"
  ELSE /\ calls' = <<>>
       /\ current_mode' = cm
       /\ pc' = "idle"
       /\ result' = "ok"

\* async_set_hvac_mode(hvac_mode), called by the host: lines 273-278, and on
\* to line 280 when async_set_preset_mode made no call to await.
async_set_hvac_mode(hvac_mode) ==
  /\ pc = "idle"
  /\ op' = [kind |-> "hvac", arg |-> hvac_mode]
  /\ IF hvac_mode \in {HVAC_MODE_AUTO, HVAC_MODE_HEAT}
     THEN LET preset == IF hvac_mode = HVAC_MODE_AUTO
                        THEN PRESET_NONE ELSE PRESET_COMFORT
          IN  IF PresetCalls(preset) # <<>>
              THEN /\ calls' = PresetCalls(preset)
                   /\ pc' = "hvac_preset_await"
                   /\ result' = "pending"
                   /\ UNCHANGED current_mode
              ELSE HvacSecondPart(hvac_mode, <<>>, hvac_mode)
     ELSE HvacSecondPart(hvac_mode, <<>>, current_mode)
  /\ UNCHANGED <<hubvars, current_operation, current_temperature,
                 target_temperature_high, target_temperature_low,
                 zonevars, last, conf_override_type, setupvars>>

\* async_set_hvac_mode resumes after the preset call of line 274 or 277:
\* line 275 or 278, then lines 280-310.
HvacAfterPreset ==
  /\ pc = "hvac_preset_await"
  /\ HvacSecondPart(op.arg, calls, op.arg)
  /\ UNCHANGED <<hubvars, current_operation, current_temperature,
                 target_temperature_high, target_temperature_low,
                 zonevars, op, last, conf_override_type, setupvars>>

\* async_set_hvac_mode resumes after the preset call of line 282: lines
\* 283-286.
HvacAfterOffPreset ==
  /\ pc = "hvac_off_preset_await"
  /\ current_mode' = op.arg
  /\ calls' = Append(calls, UpdateZoneCall(Some(command_off_id), Absent, Absent))
  /\ pc' = "hvac_zone_await"
  /\ UNCHANGED <<hubvars, current_operation, current_temperature,
                 target_temperature_high, target_temperature_low,
                 zonevars, op, result, last, conf_override_type, setupvars>>

\* async_set_hvac_mode resumes after async_update_zone and the sleep of line
\* 304 (no statement of the entity lies between the two) and returns.
HvacReturn ==
  /\ pc = "hvac_zone_await"
  /\ pc' = "idle"
  /\ result' = "ok"
  /\ calls' = <<>>
  /\ UNCHANGED <<hubvars, view, zonevars, op, last,
                 conf_override_type, setupvars>>

\* async_set_temperature(target_temp_low=lo, target_temp_high=hi), called
\* by the host.
async_set_temperature(lo, hi) ==
  /\ pc = "idle"
  /\ op' = [kind |-> "temperature", arg |-> None]
  /\ IF lo = Absent \/ hi = Absent
     THEN /\ result' = PyInt(Absent)
          /\ calls' = <<>>
          /\ pc' = "idle"
     ELSE LET low0 == PyInt(lo)
              high0 == PyInt(hi)
              low == IF low0 > zones[id].temp_comfort_c
                     THEN zones[id].temp_comfort_c ELSE low0
              high == IF high0 < zones[id].temp_eco_c
                      THEN zones[id].temp_eco_c ELSE high0
          IN  /\ calls' = <<UpdateZoneCall(Absent, Some(high), Some(low))>>
              /\ result' = "pending"
              /\ pc' = "temperature_await"
  /\ UNCHANGED <<hubvars, view, zonevars, last, conf_override_type, setupvars>>

\* async_set_temperature resumes after async_update_zone and returns.
TemperatureReturn ==
  /\ pc = "temperature_await"
  /\ pc' = "idle"
  /\ result' = "ok"
  /\ calls' = <<>>
  /\ UNCHANGED <<hubvars, view, zonevars, op, last,
                 conf_override_type, setupvars>>

\* update(), called by the host (the entity does not ask to be polled).
HostUpdate ==
  /\ update(zones, overrides, temperature, now)
  /\ UNCHANGED <<hubvars, zonevars, cmdvars, conf_override_type, setupvars>>

\* Time passes.
Tick ==
  /\ now < MaxClock
  /\ now' = now + 1
  /\ UNCHANGED <<zones, overrides, temperature, view, zonevars, cmdvars,
                 last, conf_override_type, setupvars>>

(****************** the hub object changes, then calls back ***************)
\* _after_update(hub): the hub object has new data zs, ovs, tmp and calls
\* the callback the entity registered, which runs update().
after_update(zs, ovs, tmp) ==
  /\ zones' = zs
  /\ overrides' = ovs
  /\ temperature' = tmp
  /\ update(zs, ovs, tmp, now)
  /\ UNCHANGED <<now, zonevars, cmdvars, conf_override_type, setupvars>>

OverrideIds == 1 .. MaxOverrides
OverrideRecords ==
  [mode : OverrideModes, target_type : {OVERRIDE_TARGET_ZONE}, target_id : ZoneIds]
    \cup [mode : OverrideModes, target_type : {OVERRIDE_TARGET_GLOBAL},
          target_id : {"-1"}]

SetOverride(ovs, o, r) ==
  [x \in DOMAIN ovs \cup {o} |-> IF x = o THEN r ELSE ovs[x]]
DropOverride(ovs, o) == [x \in DOMAIN ovs \ {o} |-> ovs[x]]

\* The id under which the hub keeps an override of the given target: the id
\* of the override the target has, or else the least id that is free (the
\* least id when none is).
OverrideIdFor(ovs, target_type, target_id) ==
  LET same == {o \in DOMAIN ovs : /\ ovs[o].target_type = target_type
                                  /\ ovs[o].target_id = target_id}
      free == OverrideIds \ DOMAIN ovs
      from == IF same # {} THEN same ELSE IF free # {} THEN free ELSE OverrideIds
  IN  CHOOSE o \in from : \A p \in from : o <= p

\* The hub answers a request of the command in flight: the override is in
\* its table, or the zone has the values asked for.
HubApply ==
  \E i \in DOMAIN calls :
     LET c == calls[i] IN
     IF c.op = "create_override"
     THEN after_update(zones,
                       SetOverride(overrides,
                                   OverrideIdFor(overrides, c.target_type, c.target_id),
                                   [mode |-> c.mode,
                                    target_type |-> c.target_type,
                                    target_id |-> c.target_id]),
                       temperature)
     ELSE LET z == zones[c.zone_id]
              z1 == [z EXCEPT
                       !.week_profile_id =
                         IF c.week_profile_id = Absent THEN @ ELSE c.week_profile_id[1],
                       !.temp_comfort_c =
                         IF c.temp_comfort_c = Absent THEN @ ELSE c.temp_comfort_c[1],
                       !.temp_eco_c =
                         IF c.temp_eco_c = Absent THEN @ ELSE c.temp_eco_c[1]]
          IN  after_update([zones EXCEPT ![c.zone_id] = z1], overrides, temperature)

\* The hub reports changes made elsewhere (the app, a timer, a sensor).
HubAllow ==
  /\ \E a \in {"0", "1"} :
       after_update([zones EXCEPT ![id].override_allowed = a],
                    overrides, temperature)

HubSetpoints ==
  /\ \E c \in Temps, e \in Temps :
       /\ e <= c
       /\ after_update([zones EXCEPT ![id].temp_comfort_c = c,
                                     ![id].temp_eco_c = e],
                       overrides, temperature)

HubWeekProfile ==
  /\ \E w \in WeekProfileIds :
       after_update([zones EXCEPT ![id].week_profile_id = w],
                    overrides, temperature)

HubOverride ==
  /\ \E o \in OverrideIds, r \in OverrideRecords :
       after_update(zones, SetOverride(overrides, o, r), temperature)

HubOverrideDrop ==
  /\ \E o \in DOMAIN overrides :
       after_update(zones, DropOverride(overrides, o), temperature)

HubTemperature ==
  /\ \E t \in Temperatures : after_update(zones, overrides, t)

(******************************** _setup **********************************)
NBSP == "nbsp"
Alphabet == {"a", " ", NBSP}
Names == UNION {[1 .. k -> Alphabet] : k \in 1 .. MaxNameLen}
WeekProfileKeys == {"", "1"}

\* str.replace("\xa0", " ")
ReplaceNbsp(name) == [i \in DOMAIN name |-> IF name[i] = NBSP THEN " " ELSE name[i]]

\* _get_id_from_name(name, dictionary): the key of the first entry, in the
\* dictionary's order, whose name is `name` once its non-breaking spaces are
\* replaced; None when there is none.
RECURSIVE _get_id_from_name(_, _)
_get_id_from_name(name, dictionary) ==
  IF dictionary = <<>> THEN None
  ELSE IF ReplaceNbsp(Head(dictionary).name) = name THEN Head(dictionary).key
  ELSE _get_id_from_name(name, Tail(dictionary))

\* `for zone_id, zone in hub.zones.values()`, line 130: each value is a zone
\* dictionary, and unpacking it into two names iterates its keys.
UnpackPair(value) ==
  IF Cardinality(DOMAIN value) = 2 THEN "ok" ELSE "ValueError"

\* The loop of lines 130-151 over hub.zones: what it raises (None when it
\* ends) and the command_on_by_id it has filled.  The values of hub.zones
\* are the dictionaries NoboZone subscripts with "name", "override_allowed",
\* "temp_comfort_c" and "temp_eco_c", so the unpacking of the first one ends
\* the loop.
CommandOnLoop(zs) ==
  IF zs = <<>> THEN [raised |-> None, command_on_by_id |-> <<>>]
  ELSE IF UnpackPair(Head(zs).value) = "ok"
       THEN [raised |-> "TypeError", command_on_by_id |-> <<>>]
       ELSE [raised |-> UnpackPair(Head(zs).value), command_on_by_id |-> <<>>]

\* _setup, lines 101-151: the OFF command id, the ON command ids, and the
\* exception raised (None when there is none).
ResolveCommands(data, profiles, zs) ==
  LET command_off_name == data.command_off
      none == [raised |-> None, command_on_by_id |-> <<>>]
  IN  IF command_off_name = Absent \/ command_off_name = Some(<<>>)
      THEN [command_off_id |-> None] @@ none
      ELSE LET off_id == _get_id_from_name(command_off_name[1], profiles)
           IN  IF off_id = "" \/ off_id = None
               THEN [command_off_id |-> off_id] @@ none
               ELSE IF data.command_on = Absent
                    THEN [command_off_id |-> off_id] @@ none
                    ELSE [command_off_id |-> off_id] @@ CommandOnLoop(zs)

\* dict.get(key) of command_on_by_id.
DictGet(d, key) == IF key \in DOMAIN d THEN d[key] ELSE None

\* await hub.start(): the hub object has read the hub's week profiles and
\* zones.
HubStart ==
  /\ setup_pc = "start"
  /\ \E n \in 0 .. Cardinality(WeekProfileKeys) :
       \E ks \in [1 .. n -> WeekProfileKeys], ns \in [1 .. n -> Names] :
         /\ \A i, j \in 1 .. n : i # j => ks[i] # ks[j]
         /\ week_profiles' = [i \in 1 .. n |-> [key |-> ks[i], name |-> ns[i]]]
  /\ \E n \in 0 .. MaxSetupZones :
       \E ks \in [1 .. n -> ZoneIds], ns \in [1 .. n -> Names] :
         /\ \A i, j \in 1 .. n : i # j => ks[i] # ks[j]
         /\ hub_zones' =
              [i \in 1 .. n |->
                 [key |-> ks[i],
                  value |-> [name |-> ns[i], override_allowed |-> "1",
                             temp_comfort_c |-> MIN_TEMPERATURE,
                             temp_eco_c |-> MIN_TEMPERATURE]]]
  /\ setup_pc' = "started"
  /\ UNCHANGED <<hubvars, view, zonevars, cmdvars, last, conf_override_type,
                 config_entry, entities>>

\* _setup after hub.start(): lines 101-162.
_setup ==
  /\ setup_pc = "started"
  /\ LET r == ResolveCommands(config_entry, week_profiles, hub_zones)
     IN  IF r.raised # None
         THEN /\ setup_pc' = "raised"
              /\ UNCHANGED entities
         ELSE /\ setup_pc' = "done"
              /\ entities' =
                   [z \in {hub_zones[i].key : i \in DOMAIN hub_zones} |->
                      [command_off_id |-> r.command_off_id,
                       command_on_id |-> DictGet(r.command_on_by_id, z)]]
  /\ UNCHANGED <<hubvars, view, zonevars, cmdvars, last, conf_override_type,
                 config_entry, week_profiles, hub_zones>>

(******************************* Spec *************************************)
ZoneRecord0 ==
  [override_allowed |-> "1", temp_comfort_c |-> MIN_TEMPERATURE,
   temp_eco_c |-> MIN_TEMPERATURE, week_profile_id |-> "wk1"]

\* No _setup runs in Spec and SpecUpdate.
SetupIdle ==
  /\ config_entry = [command_off |-> Absent, command_on |-> Absent]
  /\ week_profiles = <<>>
  /\ hub_zones = <<>>
  /\ setup_pc = "done"
  /\ entities = <<>>

\* NoboZone(id, hub, command_off_id, command_on_id) after __init__, whose
\* last statement is update(), for an id of ids and a pair of command ids
\* of commands.
InitZone(ids, commands) ==
  /\ id \in ids
  /\ \E c \in commands : command_off_id = c[1] /\ command_on_id = c[2]
  /\ zones = [z \in ZoneIds |-> ZoneRecord0]
  /\ overrides = <<>>
  /\ temperature = None
  /\ now = 0
  /\ LET v == ReadState(zones, overrides, temperature, now)
     IN  /\ current_mode = v.mode
         /\ current_operation = v.preset
         /\ current_temperature = v.temperature
         /\ target_temperature_high = v.high
         /\ target_temperature_low = v.low
         /\ last = [state |-> get_current_zone_mode(zones, id, now), view |-> v,
                    time |-> now, repeats |-> FALSE]
  /\ pc = "idle"
  /\ op = [kind |-> "none", arg |-> None]
  /\ calls = <<>>
  /\ result = "ok"

Init ==
  /\ InitZone({"1"}, {<<None, None>>, <<"off", "wk1">>})
  /\ conf_override_type \in {OVERRIDE_TYPE_CONSTANT, OVERRIDE_TYPE_NOW}
  /\ SetupIdle

Next ==
  \/ \E m \in HvacArgs : async_set_hvac_mode(m)
  \/ HvacAfterPreset
  \/ HvacAfterOffPreset
  \/ HvacReturn
  \/ \E p \in PresetArgs : async_set_preset_mode(p)
  \/ PresetReturn
  \/ \E lo \in TempArgs, hi \in TempArgs : async_set_temperature(lo, hi)
  \/ TemperatureReturn
  \/ HostUpdate
  \/ Tick
  \/ HubApply
  \/ HubAllow

Spec == Init /\ [][Next]_vars

InitUpdate ==
  /\ InitZone({"1"}, {<<None, None>>})
  /\ conf_override_type = OVERRIDE_TYPE_CONSTANT
  /\ SetupIdle

NextUpdate ==
  \/ HostUpdate
  \/ Tick
  \/ HubAllow
  \/ HubSetpoints
  \/ HubWeekProfile
  \/ HubOverride
  \/ HubOverrideDrop
  \/ HubTemperature

SpecUpdate == InitUpdate /\ [][NextUpdate]_vars

InitSetup ==
  /\ InitZone({"1"}, {<<None, None>>})
  /\ conf_override_type = OVERRIDE_TYPE_CONSTANT
  /\ config_entry \in
       [command_off : {Absent} \cup {Some(n) : n \in Names \cup {<<>>}},
        command_on : {Absent} \cup
                     {Some(d) : d \in UNION {[ks -> Names] :
                                  ks \in {k \in SUBSET Names :
                                            Cardinality(k) <= MaxCommandOn}}}]
  /\ week_profiles = <<>>
  /\ hub_zones = <<>>
  /\ setup_pc = "start"
  /\ entities = <<>>

NextSetup ==
  \/ HubStart
  \/ _setup

SpecSetup == InitSetup /\ [][NextSetup]_vars

(******************************** claims **********************************)
\* Some override whose mode is not normal has this zone as its target.
Targeted ==
  \E o \in DOMAIN overrides :
    /\ overrides[o].mode # OVERRIDE_MODE_NORMAL
    /\ overrides[o].target_type = OVERRIDE_TARGET_ZONE
    /\ overrides[o].target_id = id

\* A step of async_set_hvac_mode: its call, or one of its resumptions.
HvacStep ==
  \/ \E m \in HvacArgs : async_set_hvac_mode(m)
  \/ HvacAfterPreset
  \/ HvacAfterOffPreset
  \/ HvacReturn

Supported(m) == \E i \in DOMAIN hvac_modes : hvac_modes[i] = m

\* The create-override request for this zone with the given mode and
\* duration type.
OverrideRequest(mode, type) ==
  [op |-> "create_override", mode |-> mode, type |-> type,
   target_type |-> OVERRIDE_TARGET_ZONE, target_id |-> id]

\* The override mode that corresponds to a preset.
ModeOfPreset(p) ==
  CASE p = PRESET_COMFORT -> OVERRIDE_MODE_COMFORT
    [] p = PRESET_ECO -> OVERRIDE_MODE_ECO
    [] p = PRESET_AWAY -> OVERRIDE_MODE_AWAY
    [] OTHER -> OVERRIDE_MODE_NORMAL

\* C1 as claimed: after update() the mode is OFF exactly when the state name
\* read is OFF and no non-normal override targets the zone, and it is HEAT
\* whenever such an override exists.  (In SpecUpdate every state follows an
\* update() of the hub data it holds.)
C1_ModeFromOverrides ==
  /\ current_mode = HVAC_MODE_OFF <=> (last.state = NAME_OFF /\ ~Targeted)
  /\ Targeted => current_mode = HVAC_MODE_HEAT

\* C1 as amended: the overrides count only on a zone whose override_allowed
\* is "1".  There the mode is OFF exactly when the state name is OFF and no
\* non-normal override targets the zone, and HEAT whenever one does; on any
\* other zone the mode is OFF exactly when the state name is OFF, and never
\* HEAT.
C1_ModeFromAllowedOverrides ==
  LET forced == zones[id].override_allowed = "1" /\ Targeted
  IN  /\ current_mode = HVAC_MODE_OFF <=> (last.state = NAME_OFF /\ ~forced)
      /\ current_mode = HVAC_MODE_HEAT <=> forced

C1_Witness ==
  /\ zones[id].override_allowed = "1"
  /\ Targeted
  /\ last.state = NAME_OFF
  /\ current_mode = HVAC_MODE_HEAT

\* C2: every step of an async_set_hvac_mode call whose mode is not one of
\* hvac_modes makes no hub client call and leaves mode and preset as they
\* are, and the call ends in a failure.
C2_UnsupportedModeFails ==
  [][(HvacStep /\ ~Supported(op'.arg)) =>
       /\ calls' = <<>>
       /\ current_mode' = current_mode
       /\ current_operation' = current_operation
       /\ pc' = "idle" => result' \notin {"ok", "pending"}]_vars

\* C3: an async_set_temperature call with exactly one of the two bounds
\* makes one zone update with eco <= comfort: the bound given, capped by
\* (raised to) the other bound the zone has, and that other bound.
C3_OneBoundClamped ==
  [][\A lo \in TempArgs, hi \in TempArgs :
       (async_set_temperature(lo, hi) /\ ((lo = Absent) # (hi = Absent))) =>
         /\ Len(calls') = 1
         /\ calls'[1].op = "update_zone"
         /\ calls'[1].temp_eco_c # Absent
         /\ calls'[1].temp_comfort_c # Absent
         /\ calls'[1].temp_eco_c[1] <= calls'[1].temp_comfort_c[1]
         /\ lo # Absent =>
              /\ calls'[1].temp_comfort_c[1] = zones[id].temp_comfort_c
              /\ calls'[1].temp_eco_c[1] =
                   IF PyInt(lo) > zones[id].temp_comfort_c
                   THEN zones[id].temp_comfort_c ELSE PyInt(lo)
         /\ hi # Absent =>
              /\ calls'[1].temp_eco_c[1] = zones[id].temp_eco_c
              /\ calls'[1].temp_comfort_c[1] =
                   IF PyInt(hi) < zones[id].temp_eco_c
                   THEN zones[id].temp_eco_c ELSE PyInt(hi)]_vars

\* C4: async_set_preset_mode on a zone whose override_allowed is not "1"
\* returns at once without an error, has made no hub client call and has
\* left mode, preset and temperatures as they were.
C4_PresetIgnoredWhenNotAllowed ==
  [][\A p \in PresetArgs :
       (async_set_preset_mode(p) /\ zones[id].override_allowed # "1") =>
         /\ calls' = <<>>
         /\ pc' = "idle"
         /\ result' = "ok"
         /\ view' = view]_vars

C4_Witness ==
  /\ op.kind = "preset"
  /\ pc = "idle"
  /\ result = "ok"
  /\ calls = <<>>
  /\ zones[id].override_allowed = "0"

\* C5 as claimed: mode, preset and temperatures are always the ones the
\* latest update() has set.
C5_ViewIsLatestUpdate ==
  View = last.view

\* C5 as amended: preset, current temperature and target temperatures are
\* always the ones the latest update() has set.  The mode changes only to
\* what an update() sets, or, in a step of async_set_hvac_mode, to the mode
\* requested: AUTO, HEAT, or OFF on a zone that can turn off.
C5_OnlyModeSetByCommand ==
  /\ [](/\ current_operation = last.view.preset
        /\ current_temperature = last.view.temperature
        /\ target_temperature_high = last.view.high
        /\ target_temperature_low = last.view.low)
  /\ [][current_mode' # current_mode =>
          \/ current_mode' = last'.view.mode
          \/ /\ HvacStep
             /\ current_mode' = op'.arg
             /\ op'.arg \in {HVAC_MODE_AUTO, HVAC_MODE_HEAT, HVAC_MODE_OFF}
             /\ op'.arg = HVAC_MODE_OFF => can_turn_off]_vars

C5_Witness ==
  /\ op.kind = "hvac"
  /\ pc = "idle"
  /\ current_mode = HVAC_MODE_HEAT
  /\ last.view.mode = HVAC_MODE_AUTO
  /\ current_operation = last.view.preset

\* async_set_hvac_mode(AUTO) makes the hub client call of
\* async_set_preset_mode(NONE), and async_set_hvac_mode(HEAT) that of
\* async_set_preset_mode(COMFORT): on a zone that allows overrides, the
\* create-override request with mode normal, or comfort.
HvacIssuesPreset ==
  \A m \in {HVAC_MODE_AUTO, HVAC_MODE_HEAT} :
    (async_set_hvac_mode(m) /\ zones[id].override_allowed = "1") =>
      calls' = <<OverrideRequest(IF m = HVAC_MODE_AUTO
                                 THEN OVERRIDE_MODE_NORMAL
                                 ELSE OVERRIDE_MODE_COMFORT,
                                 OVERRIDE_TYPE_CONSTANT)>>

\* C6 as claimed: AUTO and HEAT make the preset call, and every
\* async_set_hvac_mode call returns with the mode equal to the one
\* requested.
C6_ModeIsRequested ==
  [][/\ HvacIssuesPreset
     /\ (HvacStep /\ pc' = "idle") => current_mode' = op'.arg]_vars

\* C6 as amended: AUTO and HEAT make the preset call.  On a zone that
\* cannot turn off, a call with AUTO or HEAT returns with the mode equal to
\* the one requested and a call with any other value (OFF too) returns with
\* the mode as it was.  On a zone that can turn off, the mode equals the
\* requested AUTO, HEAT or OFF when the week-profile update is made; an
\* update() during the awaits that follow may replace it before the call
\* returns.
C6_ModeSetForSupported ==
  [][/\ HvacIssuesPreset
     /\ (HvacStep /\ pc' = "idle" /\ ~can_turn_off) =>
          current_mode' = IF op'.arg \in {HVAC_MODE_AUTO, HVAC_MODE_HEAT}
                          THEN op'.arg ELSE current_mode
     /\ (HvacStep /\ pc' = "hvac_zone_await" /\ pc # "hvac_zone_await") =>
          current_mode' =
            IF op'.arg \in {HVAC_MODE_AUTO, HVAC_MODE_HEAT, HVAC_MODE_OFF}
            THEN op'.arg ELSE current_mode]_vars

C6_Witness ==
  /\ op = [kind |-> "hvac", arg |-> HVAC_MODE_HEAT]
  /\ pc = "idle"
  /\ ~can_turn_off
  /\ current_mode = HVAC_MODE_HEAT
  /\ last.view.mode = HVAC_MODE_AUTO

C8_UpdateIdempotent ==
  [][HostUpdate => last'.view = last.view]_vars

\* C8 as amended: it sets the same view when get_current_zone_mode gives, at
\* the time of the second call, the state name it gave the first.
C8_UpdateIdempotentForSameState ==
  [][(HostUpdate /\ get_current_zone_mode(zones, id, now) = last.state) =>
       last'.view = last.view]_vars

C8_Witness ==
  /\ last.repeats
  /\ last.time > 0
  /\ View = last.view

\* What C9 calls resolved, for the zone with the given name.
OffResolved ==
  /\ config_entry.command_off \notin {Absent, Some(<<>>)}
  /\ _get_id_from_name(config_entry.command_off[1], week_profiles) \notin {None, ""}
OnResolved(zone_name) ==
  /\ config_entry.command_on # Absent
  /\ ReplaceNbsp(zone_name) \in DOMAIN config_entry.command_on[1]
  /\ _get_id_from_name(config_entry.command_on[1][ReplaceNbsp(zone_name)],
                       week_profiles) \notin {None, ""}

\* C9: once _setup has ended, every zone of the hub for which the OFF or
\* the ON week profile was not resolved has an entity whose hvac_modes are
\* HEAT and AUTO, and an entity has OFF among its hvac_modes only if both
\* were resolved for its zone.
C9_NoOffWithoutBothProfiles ==
  setup_pc \in {"done", "raised"} =>
    \A i \in DOMAIN hub_zones :
      LET z == hub_zones[i].key
          resolved == OffResolved /\ OnResolved(hub_zones[i].value.name)
      IN  /\ ~resolved =>
               /\ z \in DOMAIN entities
               /\ HvacModes(entities[z].command_off_id, entities[z].command_on_id)
                    = HVAC_MODES_WITHOUT_OFF
          /\ (/\ z \in DOMAIN entities
              /\ HvacModes(entities[z].command_off_id, entities[z].command_on_id)
                   = HVAC_MODES) => resolved

\* C10: the zone's eco setpoint never exceeds its comfort setpoint, and an
\* async_set_temperature call with two whole-degree bounds on such a zone
\* makes a zone update whose eco is at most its comfort.
C10_EcoAtMostComfort ==
  /\ [](zones[id].temp_eco_c <= zones[id].temp_comfort_c)
  /\ [][\A lo \in TempArgs \ {Absent}, hi \in TempArgs \ {Absent} :
          (/\ async_set_temperature(lo, hi)
           /\ lo[1] % 2 = 0
           /\ hi[1] % 2 = 0
           /\ zones[id].temp_eco_c <= zones[id].temp_comfort_c) =>
            /\ Len(calls') = 1
            /\ calls'[1].temp_eco_c[1] <= calls'[1].temp_comfort_c[1]]_vars

====
